---- MODULE Spec2Model ----
(***************************************************************************)
(* A model of preprocess_data.py: the community-area loader                *)
(* (load_community_data, get_community_areas, get_indicators,              *)
(* manual_correct), the counselor aggregation (get_counselors_by_school)   *)
(* and the school-profile cleaner (clean_school_profiles,                  *)
(* add_school_location).                                                   *)
(*                                                                         *)
(* Data frames are sequences of rows; a row is a function from column      *)
(* names to values.  A frame that has an index (the indicator table) is a  *)
(* record of its index labels, its column labels and its cells.            *)
(* Decimal numbers of the community tables are held in tenths              *)
(* (Dec(4, 5) is 4.5), FTE fractions in tenths (10 is 1.0, 5 is 0.5), and  *)
(* a float quotient count / total is held as the pair it was computed      *)
(* from, compared by cross-multiplication.                                 *)
(***************************************************************************)
EXTENDS Integers, Sequences, FiniteSets, TLC

VARIABLES
    entry,        \* the function of the module the caller invoked
    pc,           \* the position inside that function, "done" once it has
                  \* returned, or the name of the exception it raised
    places,       \* GET api/v1/places: the 'community_areas' list
    atlas,        \* GET api/v1/topic_info/{com}/{ind}: the 'area_data' list
    hardfile,     \* the rows of the hardship csv file
    com_area,     \* the community-area frame (slug, name)
    indicators,   \* the indicator names get_indicators was given
    df,           \* the indicator table being filled by get_indicators
    k,            \* number of the next (com, ind) request of the nested loop
    hard,         \* the hardship frame as read
    merged,       \* the frame load_community_data returns
    payroll,      \* the rows of the payroll csv file
    counselors,   \* the frame get_counselors_by_school returns
    schoolsfile,  \* the rows of the school-profile csv file
    geofile,      \* the rows of the school geospatial file
    regex,        \* whether the installed pandas reads the pattern of
                  \* str.replace as a regular expression when the call
                  \* does not say (before 2.0 it does, from 2.0 it does not)
    schools       \* the frame clean_school_profiles returns

vars == <<entry, pc, places, atlas, hardfile, com_area, indicators, df, k,
          hard, merged, payroll, counselors, schoolsfile, geofile, regex,
          schools>>

communityVars == <<places, atlas, hardfile, com_area, indicators, df, k,
                   hard, merged>>
counselorVars == <<payroll, counselors>>
schoolVars == <<schoolsfile, geofile, regex, schools>>

----------------------------------------------------------------------------
(* Bounds of the explored inputs *)

MaxAreas == 2
MaxInds == 2
MaxHard == 2

----------------------------------------------------------------------------
(* Values *)

Range(s) == {s[i] : i \in DOMAIN s}

\* the sequences over S without repetition, of length at most n
RECURSIVE UniqueSeqs(_, _)
UniqueSeqs(S, n) ==
    IF n = 0 THEN {<< >>}
    ELSE LET shorter == UniqueSeqs(S, n - 1)
         IN  shorter \cup
             UNION {{Append(s, x) : x \in S \ Range(s)} :
                      s \in {t \in shorter : Len(t) = n - 1}}

\* the sequences over S of length at most n
RECURSIVE SeqsUpTo(_, _)
SeqsUpTo(S, n) ==
    IF n = 0 THEN {<< >>}
    ELSE LET shorter == SeqsUpTo(S, n - 1)
         IN  shorter \cup
             {Append(s, x) : s \in {t \in shorter : Len(t) = n - 1}, x \in S}

\* a missing cell (NaN) and a cell holding the number v
NaN == [na |-> TRUE, v |-> 0]
Val(x) == [na |-> FALSE, v |-> x]

\* the decimal number i.t, in tenths
Dec(i, t) == i * 10 + t

----------------------------------------------------------------------------
(* The community-area loader *)

INDICATORS ==
    << "total-population",
       "non-hispanic-african-american-or-black",
       "non-hispanic-asian-or-pacific-islander",
       "hispanic-or-latino",
       "non-hispanic-white",
       "single-parent-households",
       "limited-english-proficiency",
       "violent-crime" >>

\* pd.DataFrame(index=communities, columns=indicators): every cell missing
NewFrame(index, columns) ==
    [index   |-> index,
     columns |-> columns,
     cell    |-> [p \in Range(index) \X Range(columns) |-> NaN]]

\* df.loc[r, c] = v.  A label that is not on its axis is appended to the
\* axis (setting with enlargement); the other new cells are missing.
LocSet(d, r, c, v) ==
    LET idx  == IF r \in Range(d.index) THEN d.index ELSE Append(d.index, r)
        cols == IF c \in Range(d.columns) THEN d.columns
                ELSE Append(d.columns, c)
    IN  [index   |-> idx,
         columns |-> cols,
         cell    |-> [p \in Range(idx) \X Range(cols) |->
                        IF p = <<r, c>> THEN v
                        ELSE IF p \in DOMAIN d.cell THEN d.cell[p]
                        ELSE NaN]]

\* Extract with a fault: weight_percent for every indicator
ExtractWeightOnly(ind, j) == j[1].weight_percent

\* the field of the first area_data record get_indicators stores
Extract(ind, j) ==
    IF ind = "total-population" THEN j[1].number ELSE j[1].weight_percent

\* the body of the nested loop, for the response j to request (com, ind)
FetchCell(d, com, ind, j) ==
    IF j # << >> THEN LocSet(d, com, ind, Val(Extract(ind, j))) ELSE d

\* ManualCorrect with a fault: patch montclare only where the row exists
ManualCorrectIfPresent(d) ==
    IF "montclare" \notin Range(d.index) THEN d
    ELSE
    LET d1 == LocSet(d,  "montclare", "total-population", Val(Dec(12992, 0)))
        d2 == LocSet(d1, "montclare",
                     "non-hispanic-african-american-or-black", Val(Dec(4, 5)))
        d3 == LocSet(d2, "montclare",
                     "non-hispanic-asian-or-pacific-islander", Val(Dec(4, 0)))
        d4 == LocSet(d3, "montclare", "hispanic-or-latino", Val(Dec(58, 4)))
        d5 == LocSet(d4, "montclare", "non-hispanic-white", Val(Dec(31, 0)))
        d6 == LocSet(d5, "montclare", "single-parent-households",
                     Val(Dec(9, 6)))
        d7 == LocSet(d6, "montclare", "limited-english-proficiency",
                     Val(Dec(23, 9)))
    IN  d7

\* manual_correct: seven assignments to the montclare row
ManualCorrect(d) ==
    LET d1 == LocSet(d,  "montclare", "total-population", Val(Dec(12992, 0)))
        d2 == LocSet(d1, "montclare",
                     "non-hispanic-african-american-or-black", Val(Dec(4, 5)))
        d3 == LocSet(d2, "montclare",
                     "non-hispanic-asian-or-pacific-islander", Val(Dec(4, 0)))
        d4 == LocSet(d3, "montclare", "hispanic-or-latino", Val(Dec(58, 4)))
        d5 == LocSet(d4, "montclare", "non-hispanic-white", Val(Dec(31, 0)))
        d6 == LocSet(d5, "montclare", "single-parent-households",
                     Val(Dec(9, 6)))
        d7 == LocSet(d6, "montclare", "limited-english-proficiency",
                     Val(Dec(23, 9)))
    IN  d7

\* what a call gives: the frame it returns, or the exception it raises
Ok(frame) == [raised |-> "", frame |-> frame]
Raise(exception) == [raised |-> exception, frame |-> << >>]

\* the columns of pd.DataFrame(records): the keys of the records, and no
\* column at all for an empty list
RecordColumns(rows) == UNION {DOMAIN rows[i] : i \in DOMAIN rows}

\* frame.drop(columns=cols) on a frame of columns have (errors='raise'):
\* KeyError when a label of cols is no column of the frame
DropColumns(rows, have, cols) ==
    IF ~(cols \subseteq have) THEN Raise("KeyError")
    ELSE Ok([i \in DOMAIN rows |->
                [c \in (DOMAIN rows[i]) \ cols |-> rows[i][c]]])

\* com_area['slug'] and other columns of a frame, as a sequence
Column(rows, c) == [i \in DOMAIN rows |-> rows[i][c]]

\* a row of the left frame joined with a row of the right frame
JoinRow(l, r) ==
    [c \in (DOMAIN l) \cup (DOMAIN r) |-> IF c \in DOMAIN l THEN l[c] ELSE r[c]]

\* a row of the left frame with the right frame's columns missing
PadRow(l, rcols) ==
    [c \in (DOMAIN l) \cup rcols |-> IF c \in DOMAIN l THEN l[c] ELSE NaN]

\* Merge with a fault: how='inner'
RECURSIVE InnerMerge(_, _, _, _, _)
InnerMerge(left, right, lkey, rkey, rcols) ==
    IF left = << >> THEN << >>
    ELSE LET l == Head(left)
             Match(r) == r[rkey] = l[lkey]
             hits == SelectSeq(right, Match)
         IN  [i \in DOMAIN hits |-> JoinRow(l, hits[i])]
             \o InnerMerge(Tail(left), right, lkey, rkey, rcols)

\* pd.merge(left, right, how='left', left_on=lkey, right_on=rkey): the left
\* rows in order, each once per right row with an equal key, or once with
\* the right columns (rcols) missing when no right row has an equal key
RECURSIVE Merge(_, _, _, _, _)
Merge(left, right, lkey, rkey, rcols) ==
    IF left = << >> THEN << >>
    ELSE LET l == Head(left)
             Match(r) == r[rkey] = l[lkey]
             hits == SelectSeq(right, Match)
         IN  (IF hits = << >> THEN << PadRow(l, rcols) >>
              ELSE [i \in DOMAIN hits |-> JoinRow(l, hits[i])])
             \o Merge(Tail(left), right, lkey, rkey, rcols)

\* the indicator table as the right side of a merge on 'slug': one row per
\* index label, the label under 'slug'
FrameRows(d) ==
    [i \in DOMAIN d.index |->
        [c \in {"slug"} \cup Range(d.columns) |->
            IF c = "slug" THEN d.index[i] ELSE d.cell[<<d.index[i], c>>]]]

(* The inputs explored *)

Slugs == {"montclare", "austin", "uptown"}

\* the places record of a community area
Place(slug) ==
    [slug     |-> slug,
     name     |-> CASE slug = "montclare" -> "Montclare"
                    [] slug = "austin"    -> "Austin"
                    [] OTHER              -> "Uptown",
     id       |-> CASE slug = "montclare" -> 18
                    [] slug = "austin"    -> 25
                    [] OTHER              -> 3,
     geo_type |-> "Community Area"]

\* the indicator names a direct caller of get_indicators passes
IndicatorNames == {"total-population", "hispanic-or-latino", "violent-crime"}

\* area_data lists: empty, or two records whose fields all differ
AreaData ==
    { << >>,
      << [number |-> Dec(41, 0), weight_percent |-> Dec(7, 7)],
         [number |-> Dec(8, 0),  weight_percent |-> Dec(1, 5)] >> }

\* rows of the hardship file; the names differ from each other in spelling
HardshipRow(name) ==
    [c \in {"COMMUNITY AREA NAME", "HARDSHIP INDEX"} |->
        IF c = "COMMUNITY AREA NAME" THEN name
        ELSE CASE name = "Montclare" -> Val(Dec(50, 0))
               [] name = "Austin"    -> Val(Dec(73, 0))
               [] OTHER              -> Val(Dec(20, 0))]

HardshipRows == {HardshipRow(n) : n \in {"Montclare", "Austin", "AUSTIN"}}

\* the atlas answers every request the run will make
AtlasFor(slugs, inds) == [Range(slugs) \X Range(inds) -> AreaData]

\* atlases in which an area has data for every indicator or for none
AtlasByArea(slugs, inds) ==
    {[p \in Range(slugs) \X Range(inds) |->
        IF p[1] \in D
        THEN << [number |-> Dec(41, 0), weight_percent |-> Dec(7, 7)],
                [number |-> Dec(8, 0),  weight_percent |-> Dec(1, 5)] >>
        ELSE << >>] : D \in SUBSET Range(slugs)}

NoCounselorRun == payroll = << >> /\ counselors = << >>
NoSchoolRun ==
    schoolsfile = << >> /\ geofile = << >> /\ regex = TRUE /\ schools = << >>

\* a caller invokes get_indicators(com_area, indicators); a com_area
\* without rows is a frame that has its 'slug' column and no row
InitGetIndicators ==
    /\ entry = "get_indicators"
    /\ pc = "get_indicators"
    /\ places = << >>
    /\ \E slugs \in UniqueSeqs(Slugs, MaxAreas) :
          com_area = [i \in DOMAIN slugs |->
                        [slug |-> slugs[i], name |-> Place(slugs[i]).name]]
    /\ indicators \in UniqueSeqs(IndicatorNames, MaxInds)
    /\ atlas \in AtlasFor(Column(com_area, "slug"), indicators)
    /\ hardfile = << >>

\* a caller invokes load_community_data(hardship_filepath)
InitLoadCommunityData ==
    /\ entry = "load_community_data"
    /\ pc = "load_community_data"
    /\ \E slugs \in UniqueSeqs(Slugs, MaxAreas) :
          places = [i \in DOMAIN slugs |-> Place(slugs[i])]
    /\ com_area = << >>
    /\ indicators = << >>
    /\ atlas \in AtlasByArea(Column(places, "slug"), INDICATORS)
    /\ hardfile \in SeqsUpTo(HardshipRows, MaxHard)

InitCommunity ==
    /\ InitGetIndicators \/ InitLoadCommunityData
    /\ df = NewFrame(<< >>, << >>)
    /\ k = 0
    /\ hard = << >>
    /\ merged = << >>
    /\ NoCounselorRun
    /\ NoSchoolRun

\* the number of requests of the nested loop, and the k-th request
NumRequests == Len(com_area) * Len(indicators)
RequestCom(n) == com_area[((n - 1) \div Len(indicators)) + 1].slug
RequestInd(n) == indicators[((n - 1) % Len(indicators)) + 1]

\* load_community_data, lines 24-25: get_community_areas, then the call
\* get_indicators(com_area, INDICATORS).  An empty 'community_areas' list
\* makes a frame without columns, and the drop of line 43 raises KeyError.
GetCommunityAreas ==
    /\ pc = "load_community_data"
    /\ LET res == DropColumns(places, RecordColumns(places),
                              {"id", "geo_type"})
       IN  IF res.raised = ""
           THEN /\ com_area' = res.frame
                /\ indicators' = INDICATORS
                /\ pc' = "get_indicators"
           ELSE /\ pc' = res.raised
                /\ UNCHANGED <<com_area, indicators>>
    /\ UNCHANGED <<entry, places, atlas, hardfile, df, k, hard, merged,
                   counselorVars, schoolVars>>

\* get_indicators, lines 50-51
GetIndicatorsBegin ==
    /\ pc = "get_indicators"
    /\ df' = NewFrame(Column(com_area, "slug"), indicators)
    /\ k' = 1
    /\ pc' = "fetch"
    /\ UNCHANGED <<entry, places, atlas, hardfile, com_area, indicators,
                   hard, merged, counselorVars, schoolVars>>

\* get_indicators, lines 55-62: one request of the nested loop
FetchIndicator ==
    /\ pc = "fetch"
    /\ k <= NumRequests
    /\ df' = FetchCell(df, RequestCom(k), RequestInd(k),
                       atlas[<<RequestCom(k), RequestInd(k)>>])
    /\ k' = k + 1
    /\ UNCHANGED <<entry, pc, places, atlas, hardfile, com_area, indicators,
                   hard, merged, counselorVars, schoolVars>>

\* get_indicators, lines 63-64: the loop is over; correct and return
ManualCorrectAndReturn ==
    /\ pc = "fetch"
    /\ k > NumRequests
    /\ df' = ManualCorrect(df)
    /\ pc' = IF entry = "load_community_data" THEN "read_hardship" ELSE "done"
    /\ UNCHANGED <<entry, places, atlas, hardfile, com_area, indicators, k,
                   hard, merged, counselorVars, schoolVars>>

\* load_community_data, line 28
ReadHardship ==
    /\ pc = "read_hardship"
    /\ hard' = hardfile
    /\ pc' = "merge"
    /\ UNCHANGED <<entry, places, atlas, hardfile, com_area, indicators, df,
                   k, merged, counselorVars, schoolVars>>

\* load_community_data, lines 31-34
MergeCommunityData ==
    /\ pc = "merge"
    /\ merged' =
          Merge(Merge(com_area, hard, "name", "COMMUNITY AREA NAME",
                      {"COMMUNITY AREA NAME", "HARDSHIP INDEX"}),
                FrameRows(df), "slug", "slug", Range(df.columns))
    /\ pc' = "done"
    /\ UNCHANGED <<entry, places, atlas, hardfile, com_area, indicators, df,
                   k, hard, counselorVars, schoolVars>>

NextCommunity ==
    \/ GetCommunityAreas
    \/ GetIndicatorsBegin
    \/ FetchIndicator
    \/ ManualCorrectAndReturn
    \/ ReadHardship
    \/ MergeCommunityData

SpecCommunity == InitCommunity /\ [][NextCommunity]_vars

----------------------------------------------------------------------------
(* Properties of the community-area loader *)

\* the columns manual_correct writes
CorrectedColumns ==
    {"total-population", "non-hispanic-african-american-or-black",
     "non-hispanic-asian-or-pacific-islander", "hispanic-or-latino",
     "non-hispanic-white", "single-parent-households",
     "limited-english-proficiency"}

\* get_indicators has returned its table
Returned == pc \in {"read_hardship", "merge", "done"}

\* the requests the nested loop has made so far
RequestsMade == IF pc = "fetch" THEN 1..(k - 1)
                ELSE IF Returned THEN 1..NumRequests ELSE {}

\* what the extraction rule of the specification puts into a cell
RuleCell(ind, j) ==
    IF j = << >> THEN NaN
    ELSE IF ind = "total-population" THEN Val(j[1].number)
    ELSE Val(j[1].weight_percent)

\* C1: every request the fetch loop of get_indicators has made leaves its
\* cell missing when area_data is empty, and otherwise holding the first
\* record's 'number' for 'total-population' and the first record's
\* 'weight_percent' for every other indicator.  This is the state of the
\* cell as the loop leaves it; the cells manual_correct writes afterwards
\* are the subject of C2.
C1_ExtractionRule ==
    \A n \in RequestsMade :
        LET com == RequestCom(n)
            ind == RequestInd(n)
        IN  \/ Returned /\ com = "montclare" /\ ind \in CorrectedColumns
            \/ df.cell[<<com, ind>>] = RuleCell(ind, atlas[<<com, ind>>])

\* the loop is over, and it met an empty area_data, a populated
\* 'total-population' and a populated other indicator
C1_Witness ==
    /\ pc = "fetch" /\ k > NumRequests
    /\ \E n \in 1..NumRequests :
          atlas[<<RequestCom(n), RequestInd(n)>>] = << >>
    /\ \E n \in 1..NumRequests :
          /\ RequestInd(n) = "total-population"
          /\ atlas[<<RequestCom(n), RequestInd(n)>>] # << >>
    /\ \E n \in 1..NumRequests :
          /\ RequestInd(n) # "total-population"
          /\ atlas[<<RequestCom(n), RequestInd(n)>>] # << >>

\* C2: in the table get_indicators returns, montclare's seven corrected
\* fields are 12992, 4.5, 4.0, 58.4, 31.0, 9.6 and 23.9, whatever the
\* lookups returned and whether or not montclare was among the slugs.
C2_MontclareConstants ==
    Returned =>
        /\ "montclare" \in Range(df.index)
        /\ CorrectedColumns \subseteq Range(df.columns)
        /\ df.cell[<<"montclare", "total-population">>] = Val(Dec(12992, 0))
        /\ df.cell[<<"montclare",
                     "non-hispanic-african-american-or-black">>] = Val(Dec(4, 5))
        /\ df.cell[<<"montclare",
                     "non-hispanic-asian-or-pacific-islander">>] = Val(Dec(4, 0))
        /\ df.cell[<<"montclare", "hispanic-or-latino">>] = Val(Dec(58, 4))
        /\ df.cell[<<"montclare", "non-hispanic-white">>] = Val(Dec(31, 0))
        /\ df.cell[<<"montclare", "single-parent-households">>] = Val(Dec(9, 6))
        /\ df.cell[<<"montclare", "limited-english-proficiency">>] = Val(Dec(23, 9))

\* the table was returned after the lookup of montclare's population had
\* returned data
C2_Witness ==
    /\ Returned
    /\ <<"montclare", "total-population">> \in DOMAIN atlas
    /\ atlas[<<"montclare", "total-population">>] # << >>

\* C3: the table get_indicators returns has the input slugs as its rows
\* and the input indicators as its columns, and nothing else.
C3_RowsAndColumnsAreInputs ==
    Returned =>
        /\ df.index = Column(com_area, "slug")
        /\ df.columns = indicators

\* the names of the hardship file are unique
UniqueHardshipNames ==
    \A i, j \in DOMAIN hard :
        hard[i]["COMMUNITY AREA NAME"] = hard[j]["COMMUNITY AREA NAME"]
            => i = j

\* C4: with unique hardship names, load_community_data returns one row
\* per community area, in the order of the community areas; the row of an
\* area whose name equals a 'COMMUNITY AREA NAME' has that hardship row's
\* value, the row of any other area has the hardship columns missing.
C4_OneRowPerCommunityArea ==
    (entry = "load_community_data" /\ pc = "done" /\ UniqueHardshipNames) =>
        /\ Len(merged) = Len(com_area)
        /\ \A i \in DOMAIN com_area :
              /\ merged[i]["slug"] = com_area[i]["slug"]
              /\ merged[i]["name"] = com_area[i]["name"]
              /\ \A h \in DOMAIN hard :
                    hard[h]["COMMUNITY AREA NAME"] = com_area[i]["name"] =>
                        /\ merged[i]["COMMUNITY AREA NAME"]
                              = com_area[i]["name"]
                        /\ merged[i]["HARDSHIP INDEX"]
                              = hard[h]["HARDSHIP INDEX"]
              /\ (\A h \in DOMAIN hard :
                    hard[h]["COMMUNITY AREA NAME"] # com_area[i]["name"]) =>
                        /\ merged[i]["COMMUNITY AREA NAME"] = NaN
                        /\ merged[i]["HARDSHIP INDEX"] = NaN

\* a finished load with one area in the hardship file and one area not
C4_Witness ==
    /\ entry = "load_community_data" /\ pc = "done" /\ UniqueHardshipNames
    /\ \E i \in DOMAIN com_area : \E h \in DOMAIN hard :
          hard[h]["COMMUNITY AREA NAME"] = com_area[i]["name"]
    /\ \E i \in DOMAIN com_area : \A h \in DOMAIN hard :
          hard[h]["COMMUNITY AREA NAME"] # com_area[i]["name"]
    /\ Len(hard) > 1

----------------------------------------------------------------------------
(* The counselor aggregation *)

MaxPayroll == 3

\* payroll['Job Title'].isin(['School Counselor',
\*                            'Part-Time School Counselor'])
IsCounselor(row) ==
    row["Job Title"] \in {"School Counselor", "Part-Time School Counselor"}

\* a sequence of numbers in ascending order
RECURSIVE SortInts(_)
SortInts(s) ==
    IF s = << >> THEN << >>
    ELSE LET x == Head(s)
             rest == SortInts(Tail(s))
             AtMost(y) == y <= x
             Above(y) == y > x
         IN  SelectSeq(rest, AtMost) \o <<x>> \o SelectSeq(rest, Above)

\* the median of a non-empty sequence of numbers: the middle value, or the
\* mean of the two middle values (the salaries explored are even numbers,
\* so the mean is a whole number)
Median(s) ==
    LET o == SortInts(s)
        n == Len(o)
    IN  IF n % 2 = 1 THEN o[(n + 1) \div 2]
        ELSE (o[n \div 2] + o[(n \div 2) + 1]) \div 2

\* the (Dept ID, FTE) keys of a groupby, in the ascending order pandas puts
\* them in
RECURSIVE SortedKeys(_)
SortedKeys(S) ==
    IF S = {} THEN << >>
    ELSE LET m == CHOOSE x \in S : \A y \in S :
                      x[1] < y[1] \/ (x[1] = y[1] /\ x[2] <= y[2])
         IN  <<m>> \o SortedKeys(S \ {m})

\* the Dept ID keys of a groupby, in ascending order
RECURSIVE SortedDepts(_)
SortedDepts(S) ==
    IF S = {} THEN << >>
    ELSE LET m == CHOOSE x \in S : \A y \in S : x <= y
         IN  <<m>> \o SortedDepts(S \ {m})

\* sc.groupby(['Dept ID', 'FTE']): the keys, and the rows of a key.  A row
\* whose FTE is missing has no key and is in no group (dropna).
DeptFteKeys(sc) ==
    {<<sc[i]["Dept ID"], sc[i]["FTE"].v>> :
        i \in {h \in DOMAIN sc : ~sc[h]["FTE"].na}}

GroupOf(sc, key) ==
    LET In(row) == /\ row["Dept ID"] = key[1]
                   /\ ~row["FTE"].na
                   /\ row["FTE"].v = key[2]
    IN  SelectSeq(sc, In)

\* counsel_pay: the median 'FTE Annual Salary' of each (Dept ID, FTE) group
CounselPay(sc) ==
    LET keys == SortedKeys(DeptFteKeys(sc))
    IN  [i \in DOMAIN keys |->
            [c \in {"Dept ID", "FTE", "FTE Annual Salary"} |->
                CASE c = "Dept ID" -> keys[i][1]
                  [] c = "FTE"     -> keys[i][2]
                  [] OTHER ->
                       Median(Column(GroupOf(sc, keys[i]),
                                     "FTE Annual Salary"))]]

\* counsel_cnt: the number of rows of each (Dept ID, FTE) group
CounselCnt(sc) ==
    LET keys == SortedKeys(DeptFteKeys(sc))
    IN  [i \in DOMAIN keys |->
            [c \in {"Dept ID", "FTE", "num_counselors"} |->
                CASE c = "Dept ID" -> keys[i][1]
                  [] c = "FTE"     -> keys[i][2]
                  [] OTHER         -> Len(GroupOf(sc, keys[i]))]]

\* counsel_cnt.merge(counsel_pay, on=['Dept ID', 'FTE'])
RECURSIVE MergeOnDeptFte(_, _)
MergeOnDeptFte(cnt, pay) ==
    IF cnt = << >> THEN << >>
    ELSE LET l == Head(cnt)
             Match(r) == r["Dept ID"] = l["Dept ID"] /\ r["FTE"] = l["FTE"]
             hits == SelectSeq(pay, Match)
         IN  [i \in DOMAIN hits |-> JoinRow(l, hits[i])]
             \o MergeOnDeptFte(Tail(cnt), pay)

\* the num_counsel_FT and num_counsel_PT columns (np.where on FTE)
WithTypeCounts(rows) ==
    [i \in DOMAIN rows |->
        [c \in (DOMAIN rows[i]) \cup {"num_counsel_FT", "num_counsel_PT"} |->
            CASE c = "num_counsel_FT" ->
                   IF rows[i]["FTE"] = Dec(1, 0)
                   THEN rows[i]["num_counselors"] ELSE 0
              [] c = "num_counsel_PT" ->
                   IF rows[i]["FTE"] = Dec(0, 5)
                   THEN rows[i]["num_counselors"] ELSE 0
              [] OTHER -> rows[i][c]]]

RECURSIVE SumSeq(_)
SumSeq(s) == IF s = << >> THEN 0 ELSE Head(s) + SumSeq(Tail(s))

MaxOf(s) == CHOOSE x \in Range(s) : \A y \in Range(s) : y <= x
MinOf(s) == CHOOSE x \in Range(s) : \A y \in Range(s) : x <= y

\* SalaryOfDept with a fault: the lowest group median
SalaryOfDeptMin(groupMedians) == MinOf(groupMedians)

\* agg 'FTE Annual Salary': 'max' over the rows of one Dept ID
SalaryOfDept(groupMedians) == MaxOf(groupMedians)

\* CollapseByDept with a fault: the (Dept ID, FTE) rows are not collapsed
KeepDeptFteRows(rows) ==
    [i \in DOMAIN rows |->
        [c \in {"Dept ID", "num_counsel_FT", "num_counsel_PT",
                "FTE Annual Salary"} |-> rows[i][c]]]

\* counselors.groupby('Dept ID').agg(sum, sum, max).reset_index()
CollapseByDept(rows) ==
    LET depts == SortedDepts(Range(Column(rows, "Dept ID")))
        Of(d) == LET In(row) == row["Dept ID"] = d IN SelectSeq(rows, In)
    IN  [i \in DOMAIN depts |->
            [c \in {"Dept ID", "num_counsel_FT", "num_counsel_PT",
                    "FTE Annual Salary"} |->
                CASE c = "Dept ID" -> depts[i]
                  [] c = "num_counsel_FT" ->
                       SumSeq(Column(Of(depts[i]), "num_counsel_FT"))
                  [] c = "num_counsel_PT" ->
                       SumSeq(Column(Of(depts[i]), "num_counsel_PT"))
                  [] OTHER ->
                       SalaryOfDept(Column(Of(depts[i]),
                                           "FTE Annual Salary"))]]

\* line 87: read_csv of a file that has its header and no row gives
\* columns of objects
ObjectColumns(rows) == rows = << >>

\* lines 90-91: the median of a column of objects raises DataError ("No
\* numeric types to aggregate") on a pandas up to 1.2 (numericOnly), and
\* is the median of no value on a later one
MedianRaises(rows, numericOnly) == numericOnly /\ ObjectColumns(rows)

\* The installed pandas' median may refuse object columns or not; the two
\* differ only on a file that has such columns.
MedianKinds(rows) == IF ObjectColumns(rows) THEN BOOLEAN ELSE {FALSE}

\* get_counselors_by_school, lines 87-107, on the rows of the payroll
\* file: the frame it returns, or the exception of lines 90-91
CounselorsBySchool(rows, numericOnly) ==
    LET sc == SelectSeq(rows, IsCounselor)
    IN  IF MedianRaises(rows, numericOnly) THEN Raise("DataError")
        ELSE Ok(CollapseByDept(
                 WithTypeCounts(
                     MergeOnDeptFte(CounselCnt(sc), CounselPay(sc)))))

(* The payroll files explored *)

DeptIDs == {22061, 46021}

PayrollRow(title, dept, fte, salary) ==
    [c \in {"Job Title", "Dept ID", "FTE", "FTE Annual Salary"} |->
        CASE c = "Job Title" -> title
          [] c = "Dept ID"   -> dept
          [] c = "FTE"       -> fte
          [] OTHER           -> salary]

\* counselors of either title and of full-time, half-time and another FTE,
\* counselors whose FTE field is blank in the file, and employees who are
\* no counselors
PayrollRows ==
    {PayrollRow("School Counselor", d, Val(f), s) :
        d \in DeptIDs, f \in {Dec(1, 0), Dec(0, 5), Dec(0, 8)},
        s \in {50000, 80000}}
    \cup {PayrollRow("Part-Time School Counselor", d, Val(Dec(0, 5)), s) :
            d \in DeptIDs, s \in {50000, 80000}}
    \cup {PayrollRow("School Counselor", d, NaN, 80000) : d \in DeptIDs}
    \cup {PayrollRow("Regular Teacher", d, Val(Dec(1, 0)), 80000) :
            d \in DeptIDs}

NoCommunityRun ==
    /\ places = << >> /\ atlas = << >> /\ hardfile = << >>
    /\ com_area = << >> /\ indicators = << >>
    /\ df = NewFrame(<< >>, << >>) /\ k = 0
    /\ hard = << >> /\ merged = << >>

\* a caller invokes get_counselors_by_school(payroll_filepath)
InitCounselors ==
    /\ entry = "get_counselors_by_school"
    /\ pc = "get_counselors_by_school"
    /\ payroll \in SeqsUpTo(PayrollRows, MaxPayroll)
    /\ counselors = << >>
    /\ NoCommunityRun
    /\ NoSchoolRun

\* The call returns the frame or raises, by the median of the installed
\* pandas (MedianRaises).
GetCounselorsBySchool ==
    /\ pc = "get_counselors_by_school"
    /\ \E numericOnly \in MedianKinds(payroll) :
          LET res == CounselorsBySchool(payroll, numericOnly)
          IN  /\ counselors' = res.frame
              /\ pc' = IF res.raised = "" THEN "done" ELSE res.raised
    /\ UNCHANGED <<entry, payroll, communityVars, schoolVars>>

NextCounselors == GetCounselorsBySchool

SpecCounselors == InitCounselors /\ [][NextCounselors]_vars

----------------------------------------------------------------------------
(* Properties of the counselor aggregation *)

\* the payroll rows of the counselors of department d, and those of FTE f
CounselorsOf(d) ==
    {i \in DOMAIN payroll : IsCounselor(payroll[i]) /\ payroll[i]["Dept ID"] = d}

CounselorsOfFte(d, f) ==
    {i \in CounselorsOf(d) : ~payroll[i]["FTE"].na /\ payroll[i]["FTE"].v = f}

\* the counselor rows of department d whose FTE is missing
CounselorsOfNoFte(d) == {i \in CounselorsOf(d) : payroll[i]["FTE"].na}

\* the FTE values of the counselor rows of department d: a row whose FTE
\* is missing has none
FtesOf(d) == {payroll[i]["FTE"].v : i \in CounselorsOf(d) \ CounselorsOfNoFte(d)}

\* twice the median salary of the non-empty set I of payroll rows, by
\* counting: the sum of the salaries of ranks (n + 1) div 2 and
\* (n + 2) div 2, a salary having rank j when fewer than j salaries are
\* below it and at least j are at most it
TwiceMedianSalary(I) ==
    LET n == Cardinality(I)
        sal(i) == payroll[i]["FTE Annual Salary"]
        HasRank(x, j) ==
            /\ Cardinality({i \in I : sal(i) < x}) < j
            /\ Cardinality({i \in I : sal(i) <= x}) >= j
        sums == {a + b : a \in {sal(i) : i \in I}, b \in {sal(i) : i \in I}}
    IN  CHOOSE t \in sums :
            \E a, b \in {sal(i) : i \in I} :
                /\ HasRank(a, (n + 1) \div 2)
                /\ HasRank(b, (n + 2) \div 2)
                /\ t = a + b

Finished == pc = "done"

\* the number of rows the returned table has for department d
RowsOfDept(d) ==
    Cardinality({i \in DOMAIN counselors : counselors[i]["Dept ID"] = d})

\* C5 as stated: the returned table has exactly one row for every Dept ID
\* with a payroll row of a counselor job title, whatever its FTE, and no
\* row for any other Dept ID.
C5_OneRowPerCounselorDept ==
    Finished =>
        /\ \A d \in DeptIDs :
              RowsOfDept(d) = IF CounselorsOf(d) # {} THEN 1 ELSE 0
        /\ \A i \in DOMAIN counselors : counselors[i]["Dept ID"] \in DeptIDs

\* C5 as amended: the returned table has exactly one row for every Dept ID
\* with a payroll row of a counselor job title whose FTE is not missing,
\* whatever that FTE, and no row for any other Dept ID.
C5_OneRowPerDeptOfCounselorWithFte ==
    Finished =>
        /\ \A d \in DeptIDs :
              RowsOfDept(d) = IF FtesOf(d) # {} THEN 1 ELSE 0
        /\ \A i \in DOMAIN counselors : counselors[i]["Dept ID"] \in DeptIDs

\* a department with two FTE groups, one of them of an FTE other than 1.0
\* and 0.5, has its one row, and a department whose only counselor has no
\* FTE has none
C5_Witness ==
    /\ Finished
    /\ \E d \in DeptIDs :
          /\ CounselorsOfFte(d, Dec(0, 8)) # {}
          /\ CounselorsOfFte(d, Dec(1, 0)) # {}
          /\ RowsOfDept(d) = 1
    /\ \E d \in DeptIDs :
          /\ CounselorsOfNoFte(d) # {}
          /\ FtesOf(d) = {}
          /\ RowsOfDept(d) = 0

\* C6: in every returned row num_counsel_FT is the number of the
\* department's counselor rows of FTE 1.0, num_counsel_PT the number of
\* those of FTE 0.5, and the salary is the largest of the median salaries
\* of the department's FTE groups, a group being the counselor rows of
\* one FTE value.
C6_CountsAndMaxMedian ==
    Finished =>
        \A r \in DOMAIN counselors :
            LET d == counselors[r]["Dept ID"]
                ftes == FtesOf(d)
                s == counselors[r]["FTE Annual Salary"]
            IN  /\ counselors[r]["num_counsel_FT"]
                      = Cardinality(CounselorsOfFte(d, Dec(1, 0)))
                /\ counselors[r]["num_counsel_PT"]
                      = Cardinality(CounselorsOfFte(d, Dec(0, 5)))
                /\ \E f \in ftes : 2 * s = TwiceMedianSalary(CounselorsOfFte(d, f))
                /\ \A f \in ftes : TwiceMedianSalary(CounselorsOfFte(d, f)) <= 2 * s

\* a department with one full-time counselor at 80000 and one part-time
\* counselor at 50000 was reported with salary 80000
C6_Witness ==
    /\ Finished
    /\ \E r \in DOMAIN counselors :
          LET d == counselors[r]["Dept ID"]
          IN  /\ Cardinality(CounselorsOfFte(d, Dec(1, 0))) = 1
              /\ Cardinality(CounselorsOfFte(d, Dec(0, 5))) = 1
              /\ \A i \in CounselorsOfFte(d, Dec(1, 0)) :
                    payroll[i]["FTE Annual Salary"] = 80000
              /\ \A i \in CounselorsOfFte(d, Dec(0, 5)) :
                    payroll[i]["FTE Annual Salary"] = 50000
              /\ counselors[r]["FTE Annual Salary"] = 80000

\* C9: a department that has full-time and part-time counselors is
\* reported with the median salary of its full-time counselors.
C9_FullTimeSalaryKept ==
    Finished =>
        \A r \in DOMAIN counselors :
            LET d == counselors[r]["Dept ID"]
            IN  (CounselorsOfFte(d, Dec(1, 0)) # {}
                    /\ CounselorsOfFte(d, Dec(0, 5)) # {})
                => 2 * counselors[r]["FTE Annual Salary"]
                       = TwiceMedianSalary(CounselorsOfFte(d, Dec(1, 0)))

----------------------------------------------------------------------------
(* The school-profile cleaner *)

\* A column name of the school frames is the sequence of the words that
\* its underscores separate: <<"School", "ID">> is 'School_ID'.

MaxCount == 2
MaxTotal == 1

STUDENT_COUNT_TOTAL == <<"Student", "Count", "Total">>
SCHOOL_ID == <<"School", "ID">>
RACE_MAJORITY == <<"race", "majority">>

demo_cnt_cols ==
    << <<"Student", "Count", "Low", "Income">>,
       <<"Student", "Count", "Special", "Ed">>,
       <<"Student", "Count", "English", "Learners">>,
       <<"Student", "Count", "Black">>,
       <<"Student", "Count", "Hispanic">>,
       <<"Student", "Count", "White">>,
       <<"Student", "Count", "Asian">>,
       <<"Student", "Count", "Native", "American">>,
       <<"Student", "Count", "Other", "Ethnicity">>,
       <<"Student", "Count", "Asian", "Pacific", "Islander">>,
       <<"Student", "Count", "Multi">>,
       <<"Student", "Count", "Hawaiian", "Pacific", "Islander">>,
       <<"Student", "Count", "Ethnicity", "Not", "Available">> >>

race_perc_cols ==
    << <<"perc", "Student", "Count", "Black">>,
       <<"perc", "Student", "Count", "Hispanic">>,
       <<"perc", "Student", "Count", "White">>,
       <<"perc", "Student", "Count", "Asian">>,
       <<"perc", "Student", "Count", "Native", "American">>,
       <<"perc", "Student", "Count", "Other", "Ethnicity">>,
       <<"perc", "Student", "Count", "Asian", "Pacific", "Islander">>,
       <<"perc", "Student", "Count", "Multi">>,
       <<"perc", "Student", "Count", "Hawaiian", "Pacific", "Islander">>,
       <<"perc", "Student", "Count", "Ethnicity", "Not", "Available">> >>

\* 'perc_' + col
PercName(col) == <<"perc">> \o col

\* float values: not-a-number, infinity, and the quotient n / d (d > 0)
QNaN == [kind |-> "nan", n |-> 0, d |-> 1]
QInf == [kind |-> "inf", n |-> 1, d |-> 0]
Quot(n, d) == [kind |-> "num", n |-> n, d |-> d]

\* a < b for floats that are not NaN
QLess(a, b) ==
    IF a.kind = "inf" THEN FALSE
    ELSE IF b.kind = "inf" THEN TRUE
    ELSE a.n * b.d < b.n * a.d

\* Divide with a fault: a percentage of 100
DividePercent(count, total) ==
    IF count.na \/ total.na THEN QNaN
    ELSE IF total.v = 0 THEN (IF count.v = 0 THEN QNaN ELSE QInf)
    ELSE Quot(100 * count.v, total.v)

\* np.divide(count, total) on floats: NaN when an operand is missing,
\* 0 / 0 is NaN, a positive count / 0 is infinity
Divide(count, total) ==
    IF count.na \/ total.na THEN QNaN
    ELSE IF total.v = 0 THEN (IF count.v = 0 THEN QNaN ELSE QInf)
    ELSE Quot(count.v, total.v)

\* lines 123-127: the perc_ columns are added, the count columns dropped
Normalize(row) ==
    LET percs == {PercName(c) : c \in Range(demo_cnt_cols)}
        keep  == ((DOMAIN row) \ Range(demo_cnt_cols)) \cup percs
    IN  [c \in keep |->
            IF c \in percs
            THEN Divide(row[Tail(c)], row[STUDENT_COUNT_TOTAL])
            ELSE row[c]]

\* a name that is no name: the missing value of a column of strings
NoName == << >>

\* the first of cols (scanned from position i) whose value in row is
\* greater than that of best; NoName stands for no column so far
RECURSIVE ArgMaxFrom(_, _, _, _)
ArgMaxFrom(row, cols, i, best) ==
    IF i > Len(cols) THEN best
    ELSE LET c == cols[i]
             better == /\ row[c].kind # "nan"
                       /\ \/ best = NoName
                          \/ QLess(row[best], row[c])
         IN  ArgMaxFrom(row, cols, i + 1, IF better THEN c ELSE best)

\* IdxMax with a fault: the maximum over every perc_ column
IdxMaxAllPerc(row, cols) ==
    ArgMaxFrom(row, [i \in DOMAIN demo_cnt_cols |-> PercName(demo_cnt_cols[i])],
               1, NoName)

\* schools[cols].idxmax(axis=1) for one row: the first column holding the
\* largest value, NaN skipped; missing when every value is NaN
IdxMax(row, cols) == ArgMaxFrom(row, cols, 1, NoName)

\* .str.replace('.+_', '').  With the pattern a regular expression, the
\* greedy '.+_' matches from the start of the name through its last
\* underscore, so the word after the last underscore is what is left; a
\* name without underscore, and a missing name, stay as they are.  With
\* the pattern a literal string, no column name contains '.+_' and the
\* name stays as it is.
StrReplace(name, asRegex) ==
    IF asRegex /\ Len(name) > 1 THEN << name[Len(name)] >> ELSE name

\* line 137: the idxmax column of the normalized rows
IdxMaxColumn(rows) == [i \in DOMAIN rows |-> IdxMax(rows[i], race_perc_cols)]

\* What idxmax(axis=1) makes of a row of NaN depends on the installed
\* pandas: before 2.1 its label is NaN, and a column of only NaN is a
\* float64 column ("float64"); in 2.1 and 2.2 its label is NaN in a
\* column of objects ("object"); from 3.0 on the call raises ValueError
\* ("ValueError").  A pandas that reads the pattern of str.replace as a
\* regular expression is older than 2.0.
IdxMaxKinds(asRegex) ==
    IF asRegex THEN {"float64"} ELSE {"float64", "object", "ValueError"}

\* line 137 on a pandas that refuses a row of NaN: ValueError
IdxMaxRaises(labels, kind) ==
    kind = "ValueError" /\ \E i \in DOMAIN labels : labels[i] = NoName

\* line 138: the .str accessor raises AttributeError on a float64 column,
\* which is what a column in which every name is missing is before 2.1;
\* a column of objects is accepted, whatever it holds
StrAccessorRaises(labels, kind) ==
    kind = "float64" /\ \A i \in DOMAIN labels : labels[i] = NoName

\* lines 137-138 for one row, label being its entry of the idxmax column
WithRaceMajority(row, label, asRegex) ==
    [c \in (DOMAIN row) \cup {RACE_MAJORITY} |->
        IF c = RACE_MAJORITY THEN StrReplace(label, asRegex) ELSE row[c]]

\* schools_geo['school_id'].astype('int'), for the ids explored
AsInt(str) ==
    CASE str = "400010" -> 400010
      [] str = "609678" -> 609678

\* add_school_location: the geometry of the geo rows with the school's id
AddSchoolLocation(rows, geo) ==
    LET g1 == [i \in DOMAIN geo |->
                 [c \in {<<"school", "id">>, <<"geometry">>} |-> geo[i][c]]]
        g2 == [i \in DOMAIN g1 |->
                 [c \in DOMAIN g1[i] |->
                    IF c = <<"school", "id">> THEN AsInt(g1[i][c])
                    ELSE g1[i][c]]]
        m  == Merge(rows, g2, SCHOOL_ID, <<"school", "id">>,
                    {<<"school", "id">>, <<"geometry">>})
    IN  DropColumns(m, RecordColumns(m) \cup {<<"school", "id">>},
                    {<<"school", "id">>})

\* clean_school_profiles on the rows of the two files: the frame it
\* returns, or the exception of line 137 or 138
CleanSchoolProfiles(rows, geo, asRegex, kind) ==
    LET norm   == [i \in DOMAIN rows |-> Normalize(rows[i])]
        labels == IdxMaxColumn(norm)
    IN  IF IdxMaxRaises(labels, kind) THEN Raise("ValueError")
        ELSE IF StrAccessorRaises(labels, kind) THEN Raise("AttributeError")
        ELSE AddSchoolLocation(
                 [i \in DOMAIN norm |->
                     WithRaceMajority(norm[i], labels[i], asRegex)],
                 geo)

(* The school files explored *)

SchoolIDs == <<400010, 609678>>

CountValues == {NaN} \cup {Val(n) : n \in 0..MaxCount}
\* a total that is missing, zero, or the enrolment MaxTotal
TotalValues == {NaN, Val(0), Val(MaxTotal)}

\* a profile row: one count column holds the count a, the others hold 0
ProfileRow(hot, a, total) ==
    [c \in Range(demo_cnt_cols) \cup {STUDENT_COUNT_TOTAL} |->
        IF c = STUDENT_COUNT_TOTAL THEN total
        ELSE IF c = hot THEN a ELSE Val(0)]

ProfileRows ==
    {ProfileRow(hot, a, t) :
        hot \in Range(demo_cnt_cols), a \in CountValues, t \in TotalValues}

WithId(row, id) ==
    [c \in (DOMAIN row) \cup {SCHOOL_ID} |-> IF c = SCHOOL_ID THEN id ELSE row[c]]

\* files of one or two schools
SchoolFiles ==
    {<< WithId(r, SchoolIDs[1]) >> : r \in ProfileRows}
    \cup {<< WithId(r1, SchoolIDs[1]), WithId(r2, SchoolIDs[2]) >> :
            r1 \in ProfileRows, r2 \in ProfileRows}

GeoRow(id, point) ==
    [c \in {<<"school", "id">>, <<"geometry">>, <<"short", "name">>} |->
        CASE c = <<"school", "id">> -> id
          [] c = <<"geometry">>     -> point
          [] OTHER                  -> "A SCHOOL"]

\* no geometry at all, or two geometries of the second school
GeoFiles ==
    { << >>,
      << GeoRow("609678", "POINT (-87.6 41.8)"),
         GeoRow("609678", "POINT (-87.7 41.9)") >> }

\* a caller invokes clean_school_profiles(schools_filepath,
\* schools_geo_filepath)
InitSchools ==
    /\ entry = "clean_school_profiles"
    /\ pc = "clean_school_profiles"
    /\ \E v \in 1..2 : regex = <<TRUE, FALSE>>[v]
    /\ schoolsfile \in SchoolFiles
    /\ geofile \in GeoFiles
    /\ schools = << >>
    /\ NoCommunityRun
    /\ NoCounselorRun

\* The call returns the frame or raises, by the idxmax of the installed
\* pandas (IdxMaxKinds).
CleanSchoolProfilesCall ==
    /\ pc = "clean_school_profiles"
    /\ \E kind \in IdxMaxKinds(regex) :
          LET res == CleanSchoolProfiles(schoolsfile, geofile, regex, kind)
          IN  /\ schools' = res.frame
              /\ pc' = IF res.raised = "" THEN "done" ELSE res.raised
    /\ UNCHANGED <<entry, schoolsfile, geofile, regex, communityVars,
                   counselorVars>>

NextSchools == CleanSchoolProfilesCall

SpecSchools == InitSchools /\ [][NextSchools]_vars

----------------------------------------------------------------------------
(* Properties of the school-profile cleaner *)

\* the row of the profile file that the returned row r was made from
ProfileOf(r) ==
    schoolsfile[CHOOSE i \in DOMAIN schoolsfile :
                    schoolsfile[i][SCHOOL_ID] = r[SCHOOL_ID]]

\* a float within [0, 1]
InUnit(p) == p.kind = "num" /\ 0 <= p.n /\ p.n <= p.d

\* what C7 asks of the perc_ value p of a school with total count total
UnitOrMissing(p, total) ==
    /\ p.kind = "nan" \/ InUnit(p)
    /\ (total.na \/ total.v = 0) => p.kind = "nan"

\* C7 as stated: every perc_ value of every returned school is within
\* [0, 1] or missing, and it is missing whenever Student_Count_Total is
\* zero or missing, for any non-negative counts.
C7_PercInUnitOrMissing ==
    Finished =>
        \A i \in DOMAIN schools : \A c \in Range(demo_cnt_cols) :
            UnitOrMissing(schools[i][PercName(c)],
                          schools[i][STUDENT_COUNT_TOTAL])

\* C7 as amended: the same, for every count that does not exceed
\* Student_Count_Total (or is missing, or whose total is missing).
C7_PercInUnitWhenCountWithinTotal ==
    Finished =>
        \A i \in DOMAIN schools : \A c \in Range(demo_cnt_cols) :
            LET count == ProfileOf(schools[i])[c]
                total == ProfileOf(schools[i])[STUDENT_COUNT_TOTAL]
            IN  (count.na \/ total.na \/ count.v <= total.v) =>
                    UnitOrMissing(schools[i][PercName(c)],
                                  schools[i][STUDENT_COUNT_TOTAL])

\* a school whose whole enrolment is in one count column (a value of 1),
\* and a school with a total of zero
C7_Witness ==
    /\ Finished
    /\ \E i \in DOMAIN schools : \E c \in Range(demo_cnt_cols) :
          /\ schools[i][PercName(c)].kind = "num"
          /\ schools[i][PercName(c)].n = schools[i][PercName(c)].d
    /\ \E i \in DOMAIN schools :
          /\ ~schools[i][STUDENT_COUNT_TOTAL].na
          /\ schools[i][STUDENT_COUNT_TOTAL].v = 0
          /\ \A c \in Range(demo_cnt_cols) : schools[i][PercName(c)].kind = "nan"

\* the ten race categories in the order the specification lists them
RaceOrder ==
    << <<"Black">>, <<"Hispanic">>, <<"White">>, <<"Asian">>,
       <<"Native", "American">>, <<"Other", "Ethnicity">>,
       <<"Asian", "Pacific", "Islander">>, <<"Multi">>,
       <<"Hawaiian", "Pacific", "Islander">>,
       <<"Ethnicity", "Not", "Available">> >>

RaceColumn(j) == <<"perc", "Student", "Count">> \o RaceOrder[j]

\* the position in RaceOrder of the column that holds the largest value of
\* row r and is the first to hold it; 0 when every value is missing
Selected(r) ==
    LET Holds(j) == r[RaceColumn(j)].kind # "nan"
        First(j) ==
            /\ Holds(j)
            /\ \A h \in DOMAIN RaceOrder :
                  Holds(h) => ~QLess(r[RaceColumn(j)], r[RaceColumn(h)])
            /\ \A h \in 1..(j - 1) :
                  Holds(h) => QLess(r[RaceColumn(h)], r[RaceColumn(j)])
    IN  IF \E j \in DOMAIN RaceOrder : First(j)
        THEN CHOOSE j \in DOMAIN RaceOrder : First(j)
        ELSE 0

\* C8: race_majority is derived from the column that holds the largest
\* value among the ten race percentage columns, the first in the listed
\* order when several hold it: it is that column's name as str.replace
\* leaves it (and missing when all ten values are missing).
C8_FirstMaxOfTenRaceColumns ==
    Finished =>
        \A i \in DOMAIN schools :
            LET j == Selected(schools[i])
            IN  schools[i][RACE_MAJORITY]
                  = IF j = 0 THEN NoName ELSE StrReplace(RaceColumn(j), regex)

\* a school whose largest value is shared by Hispanic and White and not
\* held by Black, and a school whose largest percentage of all is that of
\* a column that is no race column
C8_Witness ==
    /\ Finished
    /\ \E i \in DOMAIN schools :
          /\ Selected(schools[i]) = 2
          /\ ~QLess(schools[i][RaceColumn(3)], schools[i][RaceColumn(2)])
    /\ \E i \in DOMAIN schools :
          /\ Selected(schools[i]) = 1
          /\ QLess(schools[i][RaceColumn(1)],
                   schools[i][<<"perc", "Student", "Count", "Low", "Income">>])

\* C10: race_majority is the selected column's name without everything up
\* to and including its last underscore, and two schools whose selected
\* columns differ have different race_majority labels.
C10_LabelNamesTheColumn ==
    Finished =>
        /\ \A i \in DOMAIN schools :
              LET j == Selected(schools[i])
              IN  j # 0 => schools[i][RACE_MAJORITY]
                             = << RaceColumn(j)[Len(RaceColumn(j))] >>
        /\ \A i, h \in DOMAIN schools :
              (/\ Selected(schools[i]) # 0
               /\ Selected(schools[h]) # 0
               /\ Selected(schools[i]) # Selected(schools[h]))
              => schools[i][RACE_MAJORITY] # schools[h][RACE_MAJORITY]

====
